---- MODULE Spec2Model ----
(***************************************************************************)
(* Quirk arithmetic gates (src/gates/ArithmeticGates.js) and the boolean   *)
(* shader coder parts, as state machines.                                  *)
(*                                                                         *)
(* SpecGates: a gate is placed in a circuit column at a row, together with *)
(* the 'Input Range' context of that column; its custom shader is          *)
(* evaluated (which may throw) and the resulting program is dispatched on  *)
(* the amplitude buffer; a second column then holds the same gate or its   *)
(* opposite.  The amplitude buffer is symbolic: position i initially holds *)
(* the amplitude labelled i, so one dispatch shows where every basis state *)
(* goes.                                                                   *)
(*                                                                         *)
(* SpecBool: one dispatch of a boolean shader, one fragment at a time, in  *)
(* any order, reading a boolean input texture.                             *)
(***************************************************************************)
EXTENDS Integers, Sequences, FiniteSets, TLC

VARIABLES pc, col, gate, prevGate, ctx, ket, res, reads,
          texSize, inTex, outTex, shift

vars == <<pc, col, gate, prevGate, ctx, ket, res, reads, texSize, inTex, outTex, shift>>

gateVars == <<pc, col, gate, prevGate, ctx, ket, res, reads>>

boolVars == <<texSize, inTex, outTex, shift>>

(***************************************************************************)
(* Bounds.                                                                 *)
(***************************************************************************)
\* number of wires of the circuit (qubits of the state vector)
NumWires == 7

\* largest boolean texture: 2^MaxSizePower pixels
MaxSizePower == 2

(***************************************************************************)
(* JavaScript and GLSL arithmetic.                                         *)
(***************************************************************************)
\* 1 << n on 32-bit integers: the shift count is taken mod 32, bit 31 is the sign
Shl1(n) ==
    LET s == n % 32
    IN IF s = 31 THEN (-2147483647) - 1 ELSE 2 ^ s

\* x << n, for results below 2^31
Shl(x, n) == x * Shl1(n)

\* x >> n, the arithmetic shift
Shr(x, n) == x \div (2 ^ (n % 32))

RECURSIVE AndNat(_, _)
\* x & y for x, y >= 0, bit by bit
AndNat(x, y) ==
    IF x = 0 \/ y = 0 THEN 0
    ELSE ((x % 2) * (y % 2)) + 2 * AndNat(x \div 2, y \div 2)

\* x & y for y >= 0 and any x (two's complement: a negative x is ~(-x-1))
BitAnd(x, y) == IF x >= 0 THEN AndNat(x, y) ELSE y - AndNat((-x) - 1, y)

\* Math.floor(n / 2) and Math.ceil(n / 2)
FloorHalf(n) == n \div 2

CeilHalf(n) == (n + 1) \div 2

\* GLSL floor(x / y) on integer-valued floats, y > 0
floorDiv(x, y) == x \div y

\* GLSL mod(x, y) = x - y * floor(x / y)
mod(x, y) == x - y * (x \div y)

(***************************************************************************)
(* Values.                                                                 *)
(***************************************************************************)
Undefined == [undefined |-> TRUE]

InputRangeA == "Input Range A"

InputRangeB == "Input Range B"

\* Map.prototype.get
MapGet(m, key) == IF key \in DOMAIN m THEN m[key] ELSE Undefined

\* Matrix.generateTransition(width, f): basis state e goes to f(e)
generateTransition(width, f) ==
    [width |-> width, transition |-> [e \in 0..(width - 1) |-> f[e]]]

(***************************************************************************)
(* Dense matrices of the small gates.                                      *)
(***************************************************************************)
makeOffsetMatrix(offset, qubitSpan) ==
    LET f == [e \in 0..(Shl1(qubitSpan) - 1) |-> BitAnd(e + offset, Shl1(qubitSpan) - 1)]
    IN generateTransition(Shl1(qubitSpan), f)

INCREMENT_MATRIX_MAKER(span) == makeOffsetMatrix(1, span)

DECREMENT_MATRIX_MAKER(span) == makeOffsetMatrix(-1, span)

\* variant: the accumulator masked to the addend's width
ADDITION_MATRIX_MAKER_addendMask(span) ==
    LET sa == FloorHalf(span)
        f == [e \in 0..(Shl1(span) - 1) |->
            LET a == BitAnd(e, Shl1(sa) - 1)
                b == Shr(e, sa)
                b2 == BitAnd(b + a, Shl1(sa) - 1)
            IN a + Shl(b2, sa)]
    IN generateTransition(Shl1(span), f)

ADDITION_MATRIX_MAKER(span) ==
    LET sa == FloorHalf(span)
        sb == CeilHalf(span)
        f == [e \in 0..(Shl1(span) - 1) |->
            LET a == BitAnd(e, Shl1(sa) - 1)
                b == Shr(e, sa)
                b2 == BitAnd(b + a, Shl1(sb) - 1)
            IN a + Shl(b2, sa)]
    IN generateTransition(Shl1(span), f)

SUBTRACTION_MATRIX_MAKER(span) ==
    LET sa == FloorHalf(span)
        sb == CeilHalf(span)
        f == [e \in 0..(Shl1(span) - 1) |->
            LET a == BitAnd(e, Shl1(sa) - 1)
                b == Shr(e, sa)
                b2 == BitAnd(b - a, Shl1(sb) - 1)
            IN a + Shl(b2, sa)]
    IN generateTransition(Shl1(span), f)

(***************************************************************************)
(* KetShaderUtil: the arguments and the permutation shape.                 *)
(***************************************************************************)
\* the amplitude read where a program indexes outside the state texture
NoAmp == -1

\* ketArgs(ctx, span): the span as a power of two and the row of the lowest qubit
ketArgs(c, span) == [span |-> Shl1(span), row |-> c.row]

\* ctx.withRow(row)
withRow(c, row) == [c EXCEPT !.row = row]

(***************************************************************************)
(* Shader bodies.  out_id is the value of the gate's qubits in the output  *)
(* position, full_out_id the whole output position, span the span uniform. *)
(***************************************************************************)
\* variant: the modulus taken before the division
auxRange_modFirst(full_out_id, srcOffset, srcSpan) ==
    floorDiv(mod(full_out_id, srcSpan), srcOffset)

\* mod(floor(full_out_id / srcOffset), srcSpan)
auxRange(full_out_id, srcOffset, srcSpan) ==
    mod(floorDiv(full_out_id, srcOffset), srcSpan)

incrementShader(out_id, full_out_id, span, u) ==
    mod((out_id - u.amount) + span, span)

\* variant: the reflection of Flip<=A under the test of Flip<A
FLIP_SHADER_offByOne(out_id, full_out_id, span, u) ==
    LET d == auxRange(full_out_id, u.srcOffset, u.srcSpan)
    IN IF out_id >= d THEN out_id ELSE mod(d - out_id, span)

FLIP_SHADER(out_id, full_out_id, span, u) ==
    LET d == auxRange(full_out_id, u.srcOffset, u.srcSpan)
    IN IF out_id >= d THEN out_id ELSE mod((d - 1) - out_id, span)

FLIP_SHADER_2(out_id, full_out_id, span, u) ==
    LET d == auxRange(full_out_id, u.srcOffset, u.srcSpan)
    IN IF out_id > d THEN out_id ELSE mod(d - out_id, span)

ADDITION_SHADER(out_id, full_out_id, span, u) ==
    LET d0 == auxRange(full_out_id, u.srcOffset, u.srcSpan)
        d1 == d0 * u.factor
        d2 == mod(d1, span)
    IN mod((out_id + span) - d2, span)

\* the value of the comparison expression spliced into the comparison body
compare(compareCode, lhs, rhs) ==
    CASE compareCode = "lhs < rhs" -> lhs < rhs
      [] compareCode = "lhs > rhs" -> lhs > rhs
      [] compareCode = "lhs <= rhs" -> lhs <= rhs
      [] compareCode = "lhs >= rhs" -> lhs >= rhs
      [] compareCode = "lhs == rhs" -> lhs = rhs
      [] compareCode = "lhs != rhs" -> lhs # rhs

comparisonShader(compareCode, out_id, full_out_id, u) ==
    LET lhs == auxRange(full_out_id, u.lhsOffset, u.lhsSpan)
        rhs == auxRange(full_out_id, u.rhsOffset, u.rhsSpan)
    IN mod(out_id + (IF compare(compareCode, lhs, rhs) THEN 1 ELSE 0), 2)

\* variant: the body read as the image instead of the preimage
testPermuteShader_forward(out_id) == mod((out_id - 1) + 4, 4)

\* the body of the shader of test "ketShaderPermute"
testPermuteShader(out_id) == mod(out_id + 1, 4)

\* the body of a program descriptor, run for one output position
permuteFunc(desc, out_id, full_out_id) ==
    CASE desc.shader = "incrementShader" ->
            incrementShader(out_id, full_out_id, desc.ket.span, desc.uniforms)
      [] desc.shader = "FLIP_SHADER" ->
            FLIP_SHADER(out_id, full_out_id, desc.ket.span, desc.uniforms)
      [] desc.shader = "FLIP_SHADER_2" ->
            FLIP_SHADER_2(out_id, full_out_id, desc.ket.span, desc.uniforms)
      [] desc.shader = "ADDITION_SHADER" ->
            ADDITION_SHADER(out_id, full_out_id, desc.ket.span, desc.uniforms)
      [] desc.shader = "comparisonShader" ->
            comparisonShader(desc.compareCode, out_id, full_out_id, desc.uniforms)
      [] desc.shader = "testPermuteShader" ->
            testPermuteShader(out_id)

\* ketShaderPermute: the output position full_out_id receives the amplitude of
\* the input position that differs from it in the gate's qubits only, where the
\* input holds the value the body returns
ketShaderPermute(desc, buf) ==
    [full_out_id \in DOMAIN buf |->
        LET step == 2 ^ desc.ket.row
            out_id == mod(floorDiv(full_out_id, step), desc.ket.span)
            in_id == permuteFunc(desc, out_id, full_out_id)
            full_in_id == full_out_id + (in_id - out_id) * step
        IN IF full_in_id \in DOMAIN buf THEN buf[full_in_id] ELSE NoAmp]

(***************************************************************************)
(* Shader functions: a program descriptor from the context and arguments.  *)
(***************************************************************************)
incrementShaderFunc(c, qubitSpan, incrementAmount) ==
    [shader |-> "incrementShader",
     ket |-> ketArgs(c, qubitSpan),
     uniforms |-> [amount |-> incrementAmount]]

flipShaderFunc(c, span, srcOffset, srcSpan) ==
    [shader |-> "FLIP_SHADER",
     ket |-> ketArgs(c, span),
     uniforms |-> [srcOffset |-> Shl1(srcOffset), srcSpan |-> Shl1(srcSpan)]]

flipShaderFunc2(c, span, srcOffset, srcSpan) ==
    [shader |-> "FLIP_SHADER_2",
     ket |-> ketArgs(c, span),
     uniforms |-> [srcOffset |-> Shl1(srcOffset), srcSpan |-> Shl1(srcSpan)]]

additionShaderFunc(c, span, srcOffset, srcSpan, scaleFactor) ==
    [shader |-> "ADDITION_SHADER",
     ket |-> ketArgs(c, span),
     uniforms |-> [srcOffset |-> Shl1(srcOffset), srcSpan |-> Shl1(srcSpan),
                   factor |-> scaleFactor]]

\* the shader of test "ketShaderPermute", made with span 2
testShaderFunc(c) ==
    [shader |-> "testPermuteShader", ket |-> ketArgs(c, 2)]

(***************************************************************************)
(* Custom shaders of the gates.  A call returns a program descriptor or    *)
(* throws; keys are the context names it looked up.                        *)
(***************************************************************************)
Returned(desc, keys) == [threw |-> FALSE, value |-> desc, keys |-> keys]

\* destructuring undefined throws a TypeError
Threw(keys) == [threw |-> TRUE, value |-> [error |-> "TypeError"], keys |-> keys]

IncrementShaderOf(span, c) == Returned(incrementShaderFunc(c, span, 1), {})

DecrementShaderOf(span, c) == Returned(incrementShaderFunc(c, span, -1), {})

\* variant: the accumulator left at the gate's own row
AdditionShaderOf_sameRow(span, c) ==
    Returned(additionShaderFunc(c, CeilHalf(span), c.row, FloorHalf(span), 1), {})

AdditionShaderOf(span, c) ==
    Returned(additionShaderFunc(withRow(c, c.row + FloorHalf(span)),
                                CeilHalf(span), c.row, FloorHalf(span), 1), {})

SubtractionShaderOf(span, c) ==
    Returned(additionShaderFunc(withRow(c, c.row + FloorHalf(span)),
                                CeilHalf(span), c.row, FloorHalf(span), -1), {})

\* variant: an absent range defaulted to offset 0, length 0
PlusAShaderOf_defaulted(span, c) ==
    LET r == MapGet(c.customContextFromGates, InputRangeA)
    IN IF r = Undefined
       THEN Returned(additionShaderFunc(c, span, 0, 0, 1), {InputRangeA})
       ELSE Returned(additionShaderFunc(c, span, r.offset, r.length, 1), {InputRangeA})

PlusAShaderOf(span, c) ==
    LET r == MapGet(c.customContextFromGates, InputRangeA)
    IN IF r = Undefined THEN Threw({InputRangeA})
       ELSE Returned(additionShaderFunc(c, span, r.offset, r.length, 1), {InputRangeA})

\* variant: the scale factor of +A
MinusAShaderOf_plus(span, c) ==
    LET r == MapGet(c.customContextFromGates, InputRangeA)
    IN IF r = Undefined THEN Threw({InputRangeA})
       ELSE Returned(additionShaderFunc(c, span, r.offset, r.length, 1), {InputRangeA})

MinusAShaderOf(span, c) ==
    LET r == MapGet(c.customContextFromGates, InputRangeA)
    IN IF r = Undefined THEN Threw({InputRangeA})
       ELSE Returned(additionShaderFunc(c, span, r.offset, r.length, -1), {InputRangeA})

FlipBelowShaderOf(span, c) ==
    LET r == MapGet(c.customContextFromGates, InputRangeA)
    IN IF r = Undefined THEN Threw({InputRangeA})
       ELSE Returned(flipShaderFunc(c, span, r.offset, r.length), {InputRangeA})

FlipBelow2ShaderOf(span, c) ==
    LET r == MapGet(c.customContextFromGates, InputRangeA)
    IN IF r = Undefined THEN Threw({InputRangeA})
       ELSE Returned(flipShaderFunc2(c, span, r.offset, r.length), {InputRangeA})

\* variant: the two ranges bound to the other side's uniforms
customComparisonShader_swapped(compareCode, c) ==
    LET l == MapGet(c.customContextFromGates, InputRangeA)
        r == MapGet(c.customContextFromGates, InputRangeB)
    IN IF l = Undefined THEN Threw({InputRangeA})
       ELSE IF r = Undefined THEN Threw({InputRangeA, InputRangeB})
       ELSE Returned([shader |-> "comparisonShader",
                      compareCode |-> compareCode,
                      ket |-> ketArgs(c, 1),
                      uniforms |-> [lhsOffset |-> Shl1(r.offset),
                                    rhsOffset |-> Shl1(l.offset),
                                    lhsSpan |-> Shl1(r.length),
                                    rhsSpan |-> Shl1(l.length)]],
                     {InputRangeA, InputRangeB})

customComparisonShader(compareCode, c) ==
    LET l == MapGet(c.customContextFromGates, InputRangeA)
        r == MapGet(c.customContextFromGates, InputRangeB)
    IN IF l = Undefined THEN Threw({InputRangeA})
       ELSE IF r = Undefined THEN Threw({InputRangeA, InputRangeB})
       ELSE Returned([shader |-> "comparisonShader",
                      compareCode |-> compareCode,
                      ket |-> ketArgs(c, 1),
                      uniforms |-> [lhsOffset |-> Shl1(l.offset),
                                    rhsOffset |-> Shl1(r.offset),
                                    lhsSpan |-> Shl1(l.length),
                                    rhsSpan |-> Shl1(r.length)]],
                     {InputRangeA, InputRangeB})

TestShaderOf(c) == Returned(testShaderFunc(c), {})

(***************************************************************************)
(* The gates.  A gate is its family, its height, its dense matrix (or      *)
(* undefined) and the context keys it declares as required.                *)
(***************************************************************************)
IncrementGate(span) ==
    [fam |-> "Increment", height |-> span,
     knownMatrix |-> IF span >= 4 THEN Undefined ELSE INCREMENT_MATRIX_MAKER(span),
     requiredContextKeys |-> {}]

DecrementGate(span) ==
    [fam |-> "Decrement", height |-> span,
     knownMatrix |-> IF span >= 4 THEN Undefined ELSE DECREMENT_MATRIX_MAKER(span),
     requiredContextKeys |-> {}]

AdditionGate(span) ==
    [fam |-> "Addition", height |-> span,
     knownMatrix |-> IF span >= 5 THEN Undefined ELSE ADDITION_MATRIX_MAKER(span),
     requiredContextKeys |-> {}]

SubtractionGate(span) ==
    [fam |-> "Subtraction", height |-> span,
     knownMatrix |-> IF span >= 5 THEN Undefined ELSE SUBTRACTION_MATRIX_MAKER(span),
     requiredContextKeys |-> {}]

PlusAGate(span) ==
    [fam |-> "PlusA", height |-> span, knownMatrix |-> Undefined,
     requiredContextKeys |-> {InputRangeA}]

MinusAGate(span) ==
    [fam |-> "MinusA", height |-> span, knownMatrix |-> Undefined,
     requiredContextKeys |-> {InputRangeA}]

FlipBelowGate(span) ==
    [fam |-> "FlipBelow", height |-> span, knownMatrix |-> Undefined,
     requiredContextKeys |-> {InputRangeA}]

FlipBelow2Gate(span) ==
    [fam |-> "FlipBelow2", height |-> span, knownMatrix |-> Undefined,
     requiredContextKeys |-> {InputRangeA}]

ComparisonGate(fam) ==
    [fam |-> fam, height |-> 1, knownMatrix |-> Undefined,
     requiredContextKeys |-> {InputRangeA, InputRangeB}]

ComparisonFams ==
    {"ALessThanB", "AGreaterThanB", "ALessThanOrEqualToB",
     "AGreaterThanOrEqualToB", "AEqualToB", "ANotEqualToB"}

\* the comparison expression each comparison gate is made with
CompareCodeOf(fam) ==
    CASE fam = "ALessThanB" -> "lhs < rhs"
      [] fam = "AGreaterThanB" -> "lhs > rhs"
      [] fam = "ALessThanOrEqualToB" -> "lhs <= rhs"
      [] fam = "AGreaterThanOrEqualToB" -> "lhs >= rhs"
      [] fam = "AEqualToB" -> "lhs == rhs"
      [] fam = "ANotEqualToB" -> "lhs != rhs"

\* Gate.generateFamily(minSize, maxSize, gen): the spans gen is called with
generateFamily(minSize, maxSize) == minSize..maxSize

ArithmeticGatesAll ==
    {IncrementGate(span) : span \in generateFamily(1, 16)}
    \cup {DecrementGate(span) : span \in generateFamily(1, 16)}
    \cup {AdditionGate(span) : span \in generateFamily(2, 16)}
    \cup {SubtractionGate(span) : span \in generateFamily(2, 16)}
    \cup {PlusAGate(span) : span \in generateFamily(1, 16)}
    \cup {MinusAGate(span) : span \in generateFamily(1, 16)}
    \cup {FlipBelowGate(span) : span \in generateFamily(1, 16)}
    \cup {FlipBelow2Gate(span) : span \in generateFamily(1, 16)}
    \cup {ComparisonGate(fam) : fam \in ComparisonFams}

\* the gate test "ketShaderPermute" runs its shader as
TestPermuteGate ==
    [fam |-> "TestPermute", height |-> 2,
     knownMatrix |-> generateTransition(4, [i \in 0..3 |-> BitAnd(i - 1, 3)]),
     requiredContextKeys |-> {}]

\* gate.customShader(ctx)
customShader(g, c) ==
    CASE g.fam = "Increment" -> IncrementShaderOf(g.height, c)
      [] g.fam = "Decrement" -> DecrementShaderOf(g.height, c)
      [] g.fam = "Addition" -> AdditionShaderOf(g.height, c)
      [] g.fam = "Subtraction" -> SubtractionShaderOf(g.height, c)
      [] g.fam = "PlusA" -> PlusAShaderOf(g.height, c)
      [] g.fam = "MinusA" -> MinusAShaderOf(g.height, c)
      [] g.fam = "FlipBelow" -> FlipBelowShaderOf(g.height, c)
      [] g.fam = "FlipBelow2" -> FlipBelow2ShaderOf(g.height, c)
      [] g.fam \in ComparisonFams -> customComparisonShader(CompareCodeOf(g.fam), c)
      [] g.fam = "TestPermute" -> TestShaderOf(c)

(***************************************************************************)
(* Circuit columns: what can be placed.                                    *)
(***************************************************************************)
Wires == 0..(NumWires - 1)

\* positions of the state vector
Full == 0..((2 ^ NumWires) - 1)

\* the wires [offset, offset + length)
WiresOf(offset, length) == offset..(offset + length - 1)

Ranges ==
    {r \in [offset : Wires, length : 1..NumWires] : r.offset + r.length <= NumWires}

\* the context maps: each key absent or bound to a range
ContextMaps == UNION {[K -> Ranges] : K \in SUBSET {InputRangeA, InputRangeB}}

\* the gate and the input ranges of a column lie on the wires and are disjoint
Fits(g, c) ==
    LET m == c.customContextFromGates
    IN /\ c.row + g.height <= NumWires
       /\ \A k \in DOMAIN m :
            WiresOf(m[k].offset, m[k].length) \cap WiresOf(c.row, g.height) = {}
       /\ \A k1, k2 \in DOMAIN m :
            k1 # k2 =>
              WiresOf(m[k1].offset, m[k1].length)
                \cap WiresOf(m[k2].offset, m[k2].length) = {}

PlaceableGates == {g \in ArithmeticGatesAll \cup {TestPermuteGate} : g.height <= NumWires}

\* the family that undoes a family
OppositeFam(fam) ==
    CASE fam = "Increment" -> "Decrement"
      [] fam = "Decrement" -> "Increment"
      [] fam = "Addition" -> "Subtraction"
      [] fam = "Subtraction" -> "Addition"
      [] fam = "PlusA" -> "MinusA"
      [] fam = "MinusA" -> "PlusA"
      [] OTHER -> fam

\* the second column holds the same gate again or the gate that undoes it
NextColumnGates(g) ==
    {h \in PlaceableGates : h.height = g.height /\ h.fam \in {g.fam, OppositeFam(g.fam)}}

NoGate == [fam |-> "none", height |-> 0, knownMatrix |-> Undefined, requiredContextKeys |-> {}]

NoResult == [none |-> TRUE]

\* the symbolic state vector: position i holds amplitude i
InitialKet == [i \in Full |-> i]

(***************************************************************************)
(* SpecGates.                                                              *)
(***************************************************************************)
BoolIdle ==
    /\ texSize = [width |-> 0, height |-> 0]
    /\ inTex = <<>>
    /\ outTex = <<>>
    /\ shift = 0

InitGates ==
    /\ pc = "placed"
    /\ col = 1
    /\ gate \in PlaceableGates
    /\ prevGate = NoGate
    /\ ctx \in [row : Wires, customContextFromGates : ContextMaps]
    /\ Fits(gate, ctx)
    /\ ket = InitialKet
    /\ res = NoResult
    /\ reads = {}
    /\ BoolIdle

\* the column's gate is asked for its shader
Evaluate ==
    /\ pc = "placed"
    /\ LET r == customShader(gate, ctx)
       IN /\ res' = r.value
          /\ reads' = r.keys
          /\ pc' = IF r.threw THEN "failed" ELSE "evaluated"
    /\ UNCHANGED <<col, gate, prevGate, ctx, ket>>
    /\ UNCHANGED boolVars

\* the program runs: the state texture is replaced by the program's output
Dispatch ==
    /\ pc = "evaluated"
    /\ ket' = ketShaderPermute(res, ket)
    /\ pc' = "applied"
    /\ UNCHANGED <<col, gate, prevGate, ctx, res, reads>>
    /\ UNCHANGED boolVars

\* the next column of the circuit, at the same row, with the same input ranges
PlaceNext ==
    /\ pc = "applied"
    /\ col = 1
    /\ \E g \in NextColumnGates(gate) : gate' = g
    /\ prevGate' = gate
    /\ col' = 2
    /\ pc' = "placed"
    /\ res' = NoResult
    /\ reads' = {}
    /\ UNCHANGED <<ctx, ket>>
    /\ UNCHANGED boolVars

NextGates == Evaluate \/ Dispatch \/ PlaceNext

SpecGates == InitGates /\ [][NextGates]_vars

(***************************************************************************)
(* The boolean coder: input part, output part, BOOL_TYPE_CODER.            *)
(***************************************************************************)
\* a pixel of the output texture no fragment has written yet
Blank == -1

\* the pixels <<x, y>> of a texture
PixelsOf(size) == (0..(size.width - 1)) \X (0..(size.height - 1))

\* the pixel read_<name>(k) samples: uv = (mod(k, w) + 0.5, floor(k / w) + 0.5) / size
ReadPixel(k, size) == <<mod(k, size.width), floorDiv(k, size.width)>>

\* read_<name>(k): float(texture2D(tex, uv).x == 1.0)
read_input(k, size, tex) == IF tex[ReadPixel(k, size)] = 1 THEN 1 ELSE 0

\* len_<name>()
len_input(size) == size.width * size.height * 4

\* len_output()
len_output(size) == size.width * size.height

\* variant: the index taken column by column
FragmentIndex_columnMajor(pixel, size) == pixel[1] * size.height + pixel[2]

\* the k of main(): gl_FragCoord.xy is the pixel's center, xy = gl_FragCoord.xy - 0.5
FragmentIndex(pixel, size) == pixel[2] * size.width + pixel[1]

\* the caller's outputFor(k): the input, rotated by the uniform shift
outputFor(k, size, tex, sh) == read_input(mod(k + sh, len_output(size)), size, tex) = 1

\* main(): gl_FragColor.x = float(outputFor(k))
main(pixel, size, tex, sh) ==
    IF outputFor(FragmentIndex(pixel, size), size, tex, sh) THEN 1 ELSE 0

RECURSIVE Log2(_)
Log2(n) == IF n <= 1 THEN 0 ELSE 1 + Log2(n \div 2)

\* WglTexture.sizePower()
sizePower(size) == Log2(size.width * size.height)

\* BOOL_TYPE_CODER.powerSizeOverhead
BoolPowerSizeOverhead == 0

\* SingleTypeCoder.arrayPowerSizeOfTexture(tex), for BOOL_TYPE_CODER
arrayPowerSizeOfTexture(size) == sizePower(size) - BoolPowerSizeOverhead

(***************************************************************************)
(* SpecBool: one dispatch, fragment by fragment.                           *)
(***************************************************************************)
TextureSizes ==
    {[width |-> 2 ^ a, height |-> 2 ^ b] :
        a \in 0..MaxSizePower, b \in 0..MaxSizePower} \cap
    {sz \in [width : 1..(2 ^ MaxSizePower), height : 1..(2 ^ MaxSizePower)] :
        sz.width * sz.height <= 2 ^ MaxSizePower}

GatesIdle ==
    /\ pc = "dispatch"
    /\ col = 0
    /\ gate = NoGate
    /\ prevGate = NoGate
    /\ ctx = [row |-> 0, customContextFromGates |-> <<>>]
    /\ ket = <<>>
    /\ res = NoResult
    /\ reads = {}

InitBool ==
    /\ GatesIdle
    /\ texSize \in TextureSizes
    /\ inTex \in [PixelsOf(texSize) -> {0, 1}]
    /\ outTex = [p \in PixelsOf(texSize) |-> Blank]
    /\ shift \in {0, 1}

\* one fragment of the dispatch runs main() and writes its pixel
Fragment ==
    /\ pc = "dispatch"
    /\ \E p \in PixelsOf(texSize) :
         /\ outTex[p] = Blank
         /\ outTex' = [outTex EXCEPT ![p] = main(p, texSize, inTex, shift)]
    /\ UNCHANGED <<texSize, inTex, shift>>
    /\ UNCHANGED gateVars

NextBool == Fragment

SpecBool == InitBool /\ [][NextBool]_vars

(***************************************************************************)
(* Vocabulary of the properties: bit fields of a position, written out bit *)
(* by bit.                                                                 *)
(***************************************************************************)
BitAt(n, j) == (n \div (2 ^ j)) % 2

RECURSIVE BitsValue(_, _, _)
\* the integer formed by bits offset .. offset + length - 1 of n, bit by bit
BitsValue(n, offset, length) ==
    IF length = 0 THEN 0
    ELSE BitAt(n, offset) + 2 * BitsValue(n, offset + 1, length - 1)

\* the value of the qubits [offset, offset + length) in position n
FieldValue(n, offset, length) == (n \div (2 ^ offset)) % (2 ^ length)

\* n with bits offset .. offset + length - 1 replaced by the bits of v
WithField(n, offset, length, v) ==
    (n - FieldValue(n, offset, length) * (2 ^ offset)) + v * (2 ^ offset)

\* the state vector is a rearrangement of the amplitudes that moves each
\* amplitude only within the qubits [offset, offset + length)
PermutesWithin(buf, offset, length) ==
    /\ Cardinality({buf[o] : o \in Full}) = Cardinality(Full)
    /\ \A o \in Full :
         /\ buf[o] \in Full
         /\ WithField(buf[o], offset, length, 0) = WithField(o, offset, length, 0)

RangeA == ctx.customContextFromGates[InputRangeA]

RangeB == ctx.customContextFromGates[InputRangeB]

AppliedOnce(fams) == pc = "applied" /\ col = 1 /\ gate.fam \in fams

AppliedTwice(fams) == pc = "applied" /\ col = 2 /\ gate.fam \in fams

(***************************************************************************)
(* C1: the Addition gate at row r sends every basis state (a, b), a in     *)
(* qubits [r, r+sa), b in qubits [r+sa, r+span), to (a, (b + a) mod 2^sb), *)
(* and the Subtraction gate to (a, (b - a) mod 2^sb); a and the qubits     *)
(* outside the gate are unchanged.                                         *)
(***************************************************************************)
AdditionSubtractionCorrect ==
    AppliedOnce({"Addition", "Subtraction"}) =>
        LET sa == gate.height \div 2
            sb == gate.height - sa
            r == ctx.row
        IN \A i \in Full :
             LET a == FieldValue(i, r, sa)
                 b == FieldValue(i, r + sa, sb)
                 b2 == IF gate.fam = "Addition" THEN (b + a) % (2 ^ sb)
                       ELSE (b - a) % (2 ^ sb)
             IN ket[WithField(i, r + sa, sb, b2)] = i

\* span 4 at row 1: (a, b) = (3, 2) is position 22 and goes to (3, 1), position 14
AdditionSpan4Applied ==
    /\ AppliedOnce({"Addition"})
    /\ gate.height = 4
    /\ ctx.row = 1
    /\ ket[14] = 22

(***************************************************************************)
(* C2: each comparison gate toggles its target bit exactly when the        *)
(* literal comparison of the values a, b of Input Range A and B is true.   *)
(***************************************************************************)
LiteralComparison(fam, a, b) ==
    \/ fam = "ALessThanB" /\ a < b
    \/ fam = "AGreaterThanB" /\ a > b
    \/ fam = "ALessThanOrEqualToB" /\ a <= b
    \/ fam = "AGreaterThanOrEqualToB" /\ a >= b
    \/ fam = "AEqualToB" /\ a = b
    \/ fam = "ANotEqualToB" /\ a # b

PermuteBodyIsPreimage ==
    AppliedOnce({"TestPermute"}) =>
        \A i \in Full :
          LET e == FieldValue(i, ctx.row, 2)
          IN ket[WithField(i, ctx.row, 2, (e - 1) % 4)] = i

\* at row 1, position 2 * 0 + 1 (outside bit set, e = 0) goes to e = 3: position 7
TestPermuteApplied ==
    /\ AppliedOnce({"TestPermute"})
    /\ ctx.row = 1
    /\ ket[7] = 1

(***************************************************************************)
(* C4: Increment and Decrement have a dense matrix exactly for spans below *)
(* 4, Addition and Subtraction exactly for spans below 5, and the gate's   *)
(* shader sends every basis state where that matrix sends it.              *)
(***************************************************************************)
MatrixThreshold(fam) == IF fam \in {"Increment", "Decrement"} THEN 4 ELSE 5

ShaderAgreesWithMatrix ==
    gate.fam \in {"Increment", "Decrement", "Addition", "Subtraction"} =>
        /\ (gate.knownMatrix # Undefined) <=> (gate.height < MatrixThreshold(gate.fam))
        /\ (pc = "applied" /\ col = 1 /\ gate.knownMatrix # Undefined) =>
             /\ gate.knownMatrix.width = 2 ^ gate.height
             /\ \A i \in Full :
                  LET e == FieldValue(i, ctx.row, gate.height)
                  IN ket[WithField(i, ctx.row, gate.height,
                                   gate.knownMatrix.transition[e])] = i

\* Subtraction of span 3 (sa = 1, sb = 2) at row 0: (a, b) = (1, 0) goes to (1, 3)
SubtractionSpan3Applied ==
    /\ AppliedOnce({"Subtraction"})
    /\ gate.height = 3
    /\ ctx.row = 0
    /\ gate.knownMatrix.transition[1] = 7
    /\ ket[7] = 1

(***************************************************************************)
(* C5: Increment, Decrement, Addition, Subtraction, +A and -A each induce  *)
(* a bijection on the gate's span, and a gate followed by its inverse with *)
(* the same span, row and input range returns every basis state to itself. *)
(***************************************************************************)
PermutationFams ==
    {"Increment", "Decrement", "Addition", "Subtraction", "PlusA", "MinusA"}

BijectionAndInverse ==
    /\ AppliedOnce(PermutationFams) => PermutesWithin(ket, ctx.row, gate.height)
    /\ (AppliedTwice(PermutationFams) /\ gate.fam = OppositeFam(prevGate.fam)) =>
         ket = InitialKet

\* +A then -A on a 1-qubit span with a 3-qubit input range (A up to 7 > 2^1)
PlusAThenMinusAApplied ==
    /\ AppliedTwice({"MinusA"})
    /\ prevGate.fam = "PlusA"
    /\ gate.height = 1
    /\ RangeA.length = 3

(***************************************************************************)
(* C6: Flip<A and Flip<=A are permutations of the span that are their own  *)
(* inverse, for every threshold d of Input Range A, also d > 2^span;       *)
(* states not below (not at-or-below) d are fixed points.                  *)
(***************************************************************************)
FlipIsInvolution ==
    /\ AppliedOnce({"FlipBelow", "FlipBelow2"}) =>
         /\ PermutesWithin(ket, ctx.row, gate.height)
         /\ \A o \in Full :
              LET d == FieldValue(o, RangeA.offset, RangeA.length)
                  x == FieldValue(o, ctx.row, gate.height)
              IN (IF gate.fam = "FlipBelow" THEN x >= d ELSE x > d) => ket[o] = o
    /\ (AppliedTwice({"FlipBelow", "FlipBelow2"}) /\ gate = prevGate) =>
         ket = InitialKet

\* span 3 at row 0 with d = 5 in wires 3..5 (position 40 + x): after one
\* Flip<A, position 40 + 1 holds amplitude 40 + 3; after two, all is back
FlipBelowSpan3Twice ==
    /\ AppliedTwice({"FlipBelow"})
    /\ prevGate = gate
    /\ gate.height = 3
    /\ ctx.row = 0
    /\ RangeA = [offset |-> 3, length |-> 3]
    /\ ketShaderPermute(res, InitialKet)[41] = 43
    /\ ket[41] = 41

(***************************************************************************)
(* C7: the value the bodies extract from full_out_id with the uniforms     *)
(* srcOffset = 1 << o and srcSpan = 1 << L is the integer formed by bits   *)
(* o .. o+L-1 of full_out_id.                                              *)
(***************************************************************************)
ExtractionIsBitField ==
    pc \in {"evaluated", "applied"} =>
        /\ gate.fam \in {"PlusA", "MinusA", "FlipBelow", "FlipBelow2"} =>
             \A n \in Full :
               auxRange(n, res.uniforms.srcOffset, res.uniforms.srcSpan)
                 = BitsValue(n, RangeA.offset, RangeA.length)
        /\ gate.fam \in {"Addition", "Subtraction"} =>
             \A n \in Full :
               auxRange(n, res.uniforms.srcOffset, res.uniforms.srcSpan)
                 = BitsValue(n, ctx.row, gate.height \div 2)
        /\ gate.fam \in ComparisonFams =>
             \A n \in Full :
               /\ auxRange(n, res.uniforms.lhsOffset, res.uniforms.lhsSpan)
                    = BitsValue(n, RangeA.offset, RangeA.length)
               /\ auxRange(n, res.uniforms.rhsOffset, res.uniforms.rhsSpan)
                    = BitsValue(n, RangeB.offset, RangeB.length)

\* full_out_id = 22 = 0b10110, range at offset 1 of length 3: the value is 3
Extraction22Offset1Length3 ==
    /\ pc = "evaluated"
    /\ gate.fam = "FlipBelow"
    /\ RangeA = [offset |-> 1, length |-> 3]
    /\ res.uniforms.srcOffset = 2
    /\ res.uniforms.srcSpan = 8
    /\ auxRange(22, res.uniforms.srcOffset, res.uniforms.srcSpan) = 3

(***************************************************************************)
(* C8: len_<name>() of the boolean input part is the logical element count *)
(* of the bound texture: 2^arrayPowerSizeOfTexture, equal to len_output()  *)
(* for a texture of the same size, and read_<name>(k) samples a pixel of   *)
(* the texture for every k below it.                                       *)
(***************************************************************************)
LenInputIsElementCount ==
    pc = "dispatch" =>
        /\ len_input(texSize) = 2 ^ arrayPowerSizeOfTexture(texSize)
        /\ len_input(texSize) = len_output(texSize)
        /\ \A k \in 0..(len_input(texSize) - 1) :
             ReadPixel(k, texSize) \in PixelsOf(texSize)

(***************************************************************************)
(* C9: a gate's custom shader, evaluated with a context from which a name  *)
(* it requires is absent, throws: no program descriptor is returned and no *)
(* offset or length is substituted; the names a shader reads are names the *)
(* gate declares as required, all of them when it returns.                 *)
(***************************************************************************)
MissingContextThrows ==
    pc \in {"evaluated", "failed", "applied"} =>
        LET missing == gate.requiredContextKeys \ DOMAIN ctx.customContextFromGates
        IN /\ (pc = "failed") <=> (missing # {})
           /\ pc = "failed" => res = [error |-> "TypeError"]
           /\ pc # "failed" =>
                /\ "shader" \in DOMAIN res
                /\ reads = gate.requiredContextKeys
           /\ reads \subseteq gate.requiredContextKeys

\* A<B with Input Range A bound and Input Range B absent
ComparisonWithoutRangeBFailed ==
    /\ pc = "failed"
    /\ gate.fam = "ALessThanB"
    /\ DOMAIN ctx.customContextFromGates = {InputRangeA}
    /\ res = [error |-> "TypeError"]

(***************************************************************************)
(* C10: within one dispatch the fragments run in any order; every written  *)
(* output pixel holds the value that its row-major index k, the uniforms   *)
(* and the input texture determine, whatever was written before, and the   *)
(* input texture is never changed.                                         *)
(***************************************************************************)
ExpectedPixel(p) ==
    LET k == p[2] * texSize.width + p[1]
        src == (k + shift) % (texSize.width * texSize.height)
    IN inTex[<<src % texSize.width, src \div texSize.width>>]

OutputIsOrderIndependent ==
    /\ [](pc = "dispatch" =>
            \A p \in PixelsOf(texSize) : outTex[p] \in {Blank, ExpectedPixel(p)})
    /\ [][pc = "dispatch" =>
            /\ inTex' = inTex
            /\ \A p \in PixelsOf(texSize) : outTex[p] # Blank => outTex'[p] = outTex[p]]_vars

\* a 2 x 2 dispatch that has written every pixel, shifted by one, of an input
\* whose only set pixel is <<1, 0>>: the set output pixel is <<0, 0>>
DispatchComplete ==
    /\ pc = "dispatch"
    /\ texSize = [width |-> 2, height |-> 2]
    /\ shift = 1
    /\ inTex = [p \in PixelsOf(texSize) |-> IF p = <<1, 0>> THEN 1 ELSE 0]
    /\ outTex = [p \in PixelsOf(texSize) |-> IF p = <<0, 0>> THEN 1 ELSE 0]

====
